---- MODULE Spec2Model ----
(***************************************************************************)
(* Zone and hunk memory allocators of src/q3/common.c (TASjr).             *)
(*                                                                         *)
(* Memory is modelled by address: a block header, a free-list node or a    *)
(* word lives at the byte address the code puts it at, and pointers are    *)
(* addresses.  Sizes are those of an LP64 build (8-byte pointers, 4-byte   *)
(* int) with USE_MULTI_SEGMENT, USE_STATIC_TAGS and USE_TRASH_TEST defined *)
(* and ZONE_DEBUG undefined, as common.c is compiled by default.           *)
(***************************************************************************)
EXTENDS Integers, Sequences, FiniteSets, TLC

(***************************************************************************)
(* Bounds of the model.                                                    *)
(***************************************************************************)
\* most zone allocations made in one run
MaxAllocs == 3
\* zone segments the operating system hands out before calloc returns NULL
MaxSegs == 1
\* calls of a recorded run
MaxScript == 6
\* calls of a recorded run of hunk calls
MaxHunkScript == 5

(***************************************************************************)
(* Program constants.                                                      *)
(***************************************************************************)
NULL == 0
ZONEID == 1919505
MINFRAGMENT == 64
SMALL_SIZE == 64
MEDIUM_SIZE == 128
DEF_COMZONEMEGS == 12
DEF_COMHUNKMEGS == 56
SmallZoneBytes == 524288
SegmentChunk == 2097152

TAG_FREE == 0
TAG_GENERAL == 1
TAG_RENDERER == 7
TAG_SMALL == 9
TAG_STATIC == 10

\* sizeof( memblock_t ): two pointers, three ints, padded to 8
SizeofMemblock == 32
\* sizeof( freeblock_t ): two pointers
SizeofFreeblock == 16
\* sizeof( intptr_t )
SizeofIntptr == 8
\* sizeof( int ), the width of the trash marker
SizeofInt == 4
\* sizeof( memzone_t ): size, used, blocklist and four (dummy, freelist) pairs
SizeofMemzone == 232
\* sizeof( memstatic_t ): a header and two bytes, padded to 8
SizeofMemstatic == 40

(***************************************************************************)
(* Where the objects live.  The addresses are the linker's and calloc's    *)
(* choice; the code compares addresses for equality only.                  *)
(***************************************************************************)
\* &emptystring, followed by numberstring[0..9]
StaticBase == 4096
\* s_buf, the small zone's static buffer
SmallZoneAddr == 1048576
\* what calloc returns for the main zone
MainZoneAddr == 16777216
\* what calloc returns for the first added segment, and the distance to the next
SegArena == 67108864
SegStride == 33554432

Zones == {"mainzone", "smallzone"}

ZoneAddr(z) == IF z = "smallzone" THEN SmallZoneAddr ELSE MainZoneAddr

\* &zone->blocklist and the four free-list heads inside memzone_t
Cap(z) == ZoneAddr(z) + 2 * SizeofInt
FreelistTiny(z) == Cap(z) + 2 * SizeofMemblock
FreelistSmall(z) == FreelistTiny(z) + SizeofFreeblock + SizeofMemblock
FreelistMedium(z) == FreelistSmall(z) + SizeofFreeblock + SizeofMemblock
Freelist(z) == FreelistMedium(z) + SizeofFreeblock + SizeofMemblock

\* &emptystring (i = 0) and &numberstring[i-1] (i = 1..10)
StaticBlock(i) == StaticBase + i * SizeofMemstatic
StaticBlocks == {StaticBlock(i) : i \in 0..10}

PAD(base, alignment) == ((base + alignment - 1) \div alignment) * alignment

Put(f, k, v) == [a \in DOMAIN f \cup {k} |-> IF a = k THEN v ELSE f[a]]
Drop(f, ks) == [a \in DOMAIN f \ ks |-> f[a]]

VARIABLES
  hdr,     \* memblock_t headers by address: [next, prev, size, tag, id]
  fl,      \* freeblock_t nodes by address: [prev, next]
  zone,    \* memzone_t size and used of mainzone and smallzone
  trash,   \* 32-bit words by address: the trash markers
  err,     \* "none", or the Com_Error that ended the process
  segs,    \* the segments calloc has handed to NewBlock: [zone, sep, size]
  hunk,    \* hunk_low and hunk_high: [mark, permanent, temp, tempHighwater]
  hunk_permanent,  \* "hunk_low" or "hunk_high" (NULL before Hunk_Clear)
  hunk_temp,
  s_hunkData,      \* the hunk's base address, NULL before Com_InitHunkMemory
  s_hunkTotal,
  hunkmem, \* hunkHeader_t of the temp frames by address: [magic, size]
  ptrs,    \* the client's live zone allocations: pointer -> requested size
  tptrs,   \* the temp buffers the client holds
  zcalls,  \* zone allocations made so far
  hcalls,  \* hunk allocations made so far
  last,    \* the call that was made last
  rec,     \* whether the run is a recorded one
  hist     \* the calls of a recorded run, in order

vars == <<hdr, fl, zone, trash, err, segs, hunk, hunk_permanent, hunk_temp,
          s_hunkData, s_hunkTotal, hunkmem, ptrs, tptrs, zcalls, hcalls, last,
          rec, hist>>

\* the allocators' state, as the C functions see it
St == [hdr |-> hdr, fl |-> fl, zone |-> zone, trash |-> trash, err |-> err,
       segs |-> segs, hunk |-> hunk, hunk_permanent |-> hunk_permanent,
       hunk_temp |-> hunk_temp, s_hunkData |-> s_hunkData,
       s_hunkTotal |-> s_hunkTotal, hunkmem |-> hunkmem]

\* Com_Error prints and calls abort(): the state stays as it is at the call
Com_Error(st, code) == [st EXCEPT !.err = code]

(***************************************************************************)
(* Free lists.                                                             *)
(***************************************************************************)
\* InitFree: zero the memblock_t in front of a free-list head
InitFree(st, fb) ==
  [st EXCEPT !.hdr = Put(st.hdr, fb - SizeofMemblock,
      [next |-> NULL, prev |-> NULL, size |-> 0, tag |-> 0, id |-> 0])]

\* RemoveFree leaves block's own node as it is; nothing reads it again before
\* InsertFree rewrites it, so the model forgets it
RemoveFree(st, block) ==
  LET fb == block + SizeofMemblock
      prev == st.fl[fb].prev
      next == st.fl[fb].next
      f1 == [st.fl EXCEPT ![prev].next = next]
      f2 == [f1 EXCEPT ![next].prev = prev]
  IN  [st EXCEPT !.fl = Drop(f2, {fb})]

\* InsertFree without the medium list
FreeListFor_NoMedium(z, size) ==
  IF size <= SMALL_SIZE THEN FreelistSmall(z) ELSE Freelist(z)

\* the list head InsertFree picks for a block of this size (TINY_SIZE undefined)
FreeListFor(z, size) ==
  IF size <= SMALL_SIZE THEN FreelistSmall(z)
  ELSE IF size <= MEDIUM_SIZE THEN FreelistMedium(z)
  ELSE Freelist(z)

InsertFree(st, z, block) ==
  LET fb == block + SizeofMemblock
      prev == FreeListFor(z, st.hdr[block].size)
      next == st.fl[prev].next
      f1 == [st.fl EXCEPT ![prev].next = fb]
      f2 == [f1 EXCEPT ![next].prev = fb]
  IN  [st EXCEPT !.fl = Put(f2, fb, [prev |-> prev, next |-> next])]

\* DIRECTION is next: forward lookup
DIRECTION(node) == node.next

(***************************************************************************)
(* Z_ClearZone and the two zones' initialisation.                          *)
(***************************************************************************)
minfragment ==
  IF MINFRAGMENT < SizeofMemblock + SizeofFreeblock
  THEN PAD(SizeofMemblock + SizeofFreeblock, SizeofIntptr)
  ELSE MINFRAGMENT

EmptyList(st, head) ==
  LET s1 == InitFree(st, head)
  IN  [s1 EXCEPT !.fl = Put(s1.fl, head, [prev |-> head, next |-> head])]

Z_ClearZone(st, z, size) ==
  LET block == ZoneAddr(z) + SizeofMemzone
      h1 == Put(st.hdr, Cap(z),
              [next |-> block, prev |-> block, size |-> 0,
               tag |-> TAG_GENERAL, id |-> -ZONEID])
      h2 == Put(h1, block,
              [next |-> Cap(z), prev |-> Cap(z), size |-> size - SizeofMemzone,
               tag |-> TAG_FREE, id |-> ZONEID])
      s1 == [st EXCEPT !.hdr = h2,
                       !.zone = Put(st.zone, z, [size |-> size, used |-> 0])]
      s2 == EmptyList(s1, Freelist(z))
      s3 == EmptyList(s2, FreelistMedium(z))
      s4 == EmptyList(s3, FreelistSmall(z))
      s5 == EmptyList(s4, FreelistTiny(z))
  IN  InsertFree(s5, z, block)

\* static storage: emptystring and numberstring[], MEM_STATIC( chr )
StaticHdr ==
  [b \in StaticBlocks |->
     [next |-> NULL, prev |-> NULL, size |-> PAD(SizeofMemstatic, 4),
      tag |-> TAG_STATIC, id |-> ZONEID]]

\* the padding after mem[2] in static storage is zero
StaticTrash ==
  [a \in {b + PAD(SizeofMemstatic, 4) - SizeofInt : b \in StaticBlocks} |-> 0]

Com_InitSmallZoneMemory(st) == Z_ClearZone(st, "smallzone", SmallZoneBytes)

Com_InitZoneMemory(st) ==
  Z_ClearZone(st, "mainzone", DEF_COMZONEMEGS * 1024 * 1024)

Empty == [a \in {} |-> 0]

\* a hunkUsed_t in zeroed static storage
ZeroBank == [mark |-> 0, permanent |-> 0, temp |-> 0, tempHighwater |-> 0]

ZoneBoot ==
  Com_InitZoneMemory(Com_InitSmallZoneMemory(
    [hdr |-> StaticHdr, fl |-> Empty, zone |-> Empty, trash |-> StaticTrash,
     err |-> "none", segs |-> <<>>,
     hunk |-> [hunk_low |-> ZeroBank, hunk_high |-> ZeroBank],
     hunk_permanent |-> NULL, hunk_temp |-> NULL, s_hunkData |-> NULL,
     s_hunkTotal |-> 0, hunkmem |-> Empty]))

(***************************************************************************)
(* Segment growth and the free-list search.                                *)
(***************************************************************************)
\* calloc for a new segment: the next free arena, NULL once the system is out
SegCalloc(st) ==
  IF Len(st.segs) >= MaxSegs THEN NULL ELSE SegArena + Len(st.segs) * SegStride

\* NewBlock leaving the separator's tag at the 0 calloc gave it
NewBlock_FreeSep(st, z, size0) ==
  LET prev == st.hdr[Cap(z)].prev
      next == st.hdr[prev].next
      size == PAD(size0, SegmentChunk)
      alloc_size == size + SizeofMemblock
      sep == SegCalloc(st)
      block == sep + SizeofMemblock
      h1 == [st.hdr EXCEPT ![prev].next = sep]
      h2 == Put(h1, sep, [next |-> block, prev |-> prev, size |-> 0,
                          tag |-> TAG_FREE, id |-> -ZONEID])
      h3 == Put(h2, block, [next |-> next, prev |-> sep, size |-> size,
                            tag |-> TAG_FREE, id |-> ZONEID])
      h4 == [h3 EXCEPT ![next].prev = block]
      s1 == [st EXCEPT !.hdr = h4,
                       !.zone[z].size = @ + alloc_size,
                       !.zone[z].used = @ + SizeofMemblock,
                       !.segs = Append(@, [zone |-> z, sep |-> sep, size |-> size])]
  IN  IF sep = NULL
      THEN [st |-> Com_Error(st, "ERR_FATAL"), fb |-> NULL]
      ELSE [st |-> InsertFree(s1, z, block), fb |-> block + SizeofMemblock]

\* NewBlock: [st, fb], fb the new free block's node (NULL after Com_Error)
NewBlock(st, z, size0) ==
  LET prev == st.hdr[Cap(z)].prev
      next == st.hdr[prev].next
      size == PAD(size0, SegmentChunk)
      alloc_size == size + SizeofMemblock
      sep == SegCalloc(st)
      block == sep + SizeofMemblock
      h1 == [st.hdr EXCEPT ![prev].next = sep]
      h2 == Put(h1, sep, [next |-> block, prev |-> prev, size |-> 0,
                          tag |-> TAG_GENERAL, id |-> -ZONEID])
      h3 == Put(h2, block, [next |-> next, prev |-> sep, size |-> size,
                            tag |-> TAG_FREE, id |-> ZONEID])
      h4 == [h3 EXCEPT ![next].prev = block]
      s1 == [st EXCEPT !.hdr = h4,
                       !.zone[z].size = @ + alloc_size,
                       !.zone[z].used = @ + SizeofMemblock,
                       !.segs = Append(@, [zone |-> z, sep |-> sep, size |-> size])]
  IN  IF sep = NULL
      THEN [st |-> Com_Error(st, "ERR_FATAL"), fb |-> NULL]
      ELSE [st |-> InsertFree(s1, z, block), fb |-> block + SizeofMemblock]

\* the list SearchFree starts in for a request of this size
SearchStart(st, z, size) ==
  IF size <= SMALL_SIZE THEN DIRECTION(st.fl[FreelistSmall(z)])
  ELSE IF size <= MEDIUM_SIZE THEN DIRECTION(st.fl[FreelistMedium(z)])
  ELSE DIRECTION(st.fl[Freelist(z)])

\* the for ( ;; ) loop of SearchFree, entered with fb: [st, base]
RECURSIVE SearchLoop(_, _, _, _)
SearchLoop(st, z, fb, size) ==
  IF fb = Freelist(z)
  THEN LET r == NewBlock(st, z, size)
           base == r.fb - SizeofMemblock
       IN  IF r.st.err # "none" THEN [st |-> r.st, base |-> NULL]
           ELSE IF r.st.hdr[base].size >= size THEN [st |-> r.st, base |-> base]
           ELSE SearchLoop(r.st, z, DIRECTION(r.st.fl[r.fb]), size)
  ELSE IF fb = FreelistSmall(z)
  THEN SearchLoop(st, z, DIRECTION(st.fl[FreelistMedium(z)]), size)
  ELSE IF fb = FreelistMedium(z)
  THEN SearchLoop(st, z, DIRECTION(st.fl[Freelist(z)]), size)
  ELSE LET base == fb - SizeofMemblock
       IN  IF st.hdr[base].size >= size THEN [st |-> st, base |-> base]
           ELSE SearchLoop(st, z, DIRECTION(st.fl[fb]), size)

\* SearchFree growing the zone as soon as the list it started in is at its end
RECURSIVE OwnListLoop(_, _, _, _)
OwnListLoop(st, z, fb, size) ==
  IF fb \in {Freelist(z), FreelistSmall(z), FreelistMedium(z)}
  THEN LET r == NewBlock(st, z, size)
           base == r.fb - SizeofMemblock
       IN  IF r.st.err # "none" THEN [st |-> r.st, base |-> NULL]
           ELSE IF r.st.hdr[base].size >= size THEN [st |-> r.st, base |-> base]
           ELSE OwnListLoop(r.st, z, DIRECTION(r.st.fl[r.fb]), size)
  ELSE LET base == fb - SizeofMemblock
       IN  IF st.hdr[base].size >= size THEN [st |-> st, base |-> base]
           ELSE OwnListLoop(st, z, DIRECTION(st.fl[fb]), size)

SearchFree_OwnList(st, z, size) ==
  OwnListLoop(st, z, SearchStart(st, z, size), size)

SearchFree(st, z, size) == SearchLoop(st, z, SearchStart(st, z, size), size)

(***************************************************************************)
(* Z_Free and Z_FreeTags.                                                  *)
(***************************************************************************)
\* headers whose bytes lie inside (lo, hi) are overwritten: they were those
\* of blocks merged away earlier, left behind in free memory
Scrub(h, lo, hi) == Drop(h, {a \in DOMAIN h : lo < a /\ a < hi})

\* MergeBlock without curr_free->size += next->size
MergeBlock_NoSize(st, curr_free, next) ==
  LET h1 == [st.hdr EXCEPT ![curr_free].next = st.hdr[next].next]
  IN  [st EXCEPT !.hdr = [h1 EXCEPT ![h1[curr_free].next].prev = curr_free]]

MergeBlock(st, curr_free, next) ==
  LET h1 == [st.hdr EXCEPT ![curr_free].size = @ + st.hdr[next].size,
                           ![curr_free].next = st.hdr[next].next]
  IN  [st EXCEPT !.hdr = [h1 EXCEPT ![h1[curr_free].next].prev = curr_free]]

\* the zone a tag's blocks live in
ZoneOfTag(tag) == IF tag = TAG_SMALL THEN "smallzone" ELSE "mainzone"

\* the word Z_Free tests: *(int *)((byte *)block + block->size - 4)
TrashAddr(st, block) == block + st.hdr[block].size - SizeofInt

\* Z_Free without the merge into a free predecessor
MergePrev_Never(st, block) == [st |-> st, block |-> block]

\* merge the freed block into a free predecessor: the block that remains
MergePrev(st, block) ==
  LET other == st.hdr[block].prev
  IN  IF st.hdr[other].tag = TAG_FREE
      THEN [st |-> MergeBlock(RemoveFree(st, other), other, block), block |-> other]
      ELSE [st |-> st, block |-> block]

\* Z_Free without the merge of a free successor
MergeNext_Never(st, block) == st

\* Z_Free merging a free successor of the small and medium classes only
MergeNext_NotLarge(st, block) ==
  LET other == st.hdr[block].next
  IN  IF st.hdr[other].tag = TAG_FREE /\ st.hdr[other].size <= MEDIUM_SIZE
      THEN MergeBlock(RemoveFree(st, other), block, other)
      ELSE st

\* merge a free successor onto the end
MergeNext(st, block) ==
  LET other == st.hdr[block].next
  IN  IF st.hdr[other].tag = TAG_FREE
      THEN MergeBlock(RemoveFree(st, other), block, other)
      ELSE st

\* Z_Free taking the size off used after the merges instead of before
FreeBlock_AfterMerge(st, block) ==
  LET z == ZoneOfTag(st.hdr[block].tag)
      s1 == [st EXCEPT !.trash = Drop(@, {TrashAddr(st, block)}),
                       !.hdr[block].tag = TAG_FREE,
                       !.hdr[block].id = ZONEID]
      m == MergePrev(s1, block)
      s2 == MergeNext(m.st, m.block)
  IN  InsertFree([s2 EXCEPT !.zone[z].used = @ - s2.hdr[m.block].size],
                 z, m.block)

\* Z_Free from the scribble on, for a block that passed the tests
FreeBlock(st, block) ==
  LET z == ZoneOfTag(st.hdr[block].tag)
      s1 == [st EXCEPT !.zone[z].used = @ - st.hdr[block].size,
                       !.trash = Drop(@, {TrashAddr(st, block)}),
                       !.hdr[block].tag = TAG_FREE,
                       !.hdr[block].id = ZONEID]
      m == MergePrev(s1, block)
  IN  InsertFree(MergeNext(m.st, m.block), z, m.block)

\* Z_Free without the TAG_STATIC test
IsStatic_Never(st, block) == FALSE

IsStatic(st, block) == st.hdr[block].tag = TAG_STATIC

\* Z_Free without the trash test
TrashOK_Always(st, block) == TRUE

TrashOK(st, block) == st.trash[TrashAddr(st, block)] = ZONEID

\* Z_Free returning at once for a block that is free already
Z_Free_IgnoreFreed(st, ptr) ==
  LET block == ptr - SizeofMemblock
  IN  IF ptr = NULL THEN Com_Error(st, "ERR_DROP")
      ELSE IF st.hdr[block].id # ZONEID THEN Com_Error(st, "ERR_FATAL")
      ELSE IF st.hdr[block].tag = TAG_FREE THEN st
      ELSE IF IsStatic(st, block) THEN st
      ELSE IF ~TrashOK(st, block) THEN Com_Error(st, "ERR_FATAL")
      ELSE FreeBlock(st, block)

Z_Free(st, ptr) ==
  LET block == ptr - SizeofMemblock
  IN  IF ptr = NULL THEN Com_Error(st, "ERR_DROP")
      ELSE IF st.hdr[block].id # ZONEID THEN Com_Error(st, "ERR_FATAL")
      ELSE IF st.hdr[block].tag = TAG_FREE THEN Com_Error(st, "ERR_FATAL")
      ELSE IF IsStatic(st, block) THEN st
      ELSE IF ~TrashOK(st, block) THEN Com_Error(st, "ERR_FATAL")
      ELSE FreeBlock(st, block)

\* Z_FreeTags without the test of block->id
TagMatch_AnyId(st, block, tag) == st.hdr[block].tag = tag

\* the test Z_FreeTags makes of a block
TagMatch(st, block, tag) ==
  st.hdr[block].tag = tag /\ st.hdr[block].id = ZONEID

\* the loop of Z_FreeTags, entered at block: [st, count]
RECURSIVE FreeTagsLoop(_, _, _, _, _)
FreeTagsLoop(st, z, block, tag, count) ==
  LET hit == TagMatch(st, block, tag)
      freed == IF st.hdr[st.hdr[block].prev].tag = TAG_FREE
               THEN st.hdr[block].prev ELSE block
      s1 == IF hit THEN Z_Free(st, block + SizeofMemblock) ELSE st
      b1 == IF hit THEN freed ELSE block
      c1 == IF hit THEN count + 1 ELSE count
  IN  IF s1.err # "none" THEN [st |-> s1, count |-> count]
      ELSE IF s1.hdr[b1].next = Cap(z) THEN [st |-> s1, count |-> c1]
      ELSE FreeTagsLoop(s1, z, s1.hdr[b1].next, tag, c1)

Z_FreeTags(st, tag) ==
  IF tag = TAG_STATIC THEN [st |-> Com_Error(st, "ERR_FATAL"), count |-> 0]
  ELSE FreeTagsLoop(st, ZoneOfTag(tag), st.hdr[Cap(ZoneOfTag(tag))].next, tag, 0)

(***************************************************************************)
(* Z_TagMalloc, Z_Malloc, S_Malloc.                                        *)
(***************************************************************************)
\* the block size Z_TagMalloc asks SearchFree for
BlockSize(size0) ==
  LET s1 == IF size0 < SizeofFreeblock THEN SizeofFreeblock ELSE size0
  IN  PAD(s1 + SizeofMemblock + SizeofInt, SizeofIntptr)

\* Z_TagMalloc splitting off whatever is left over
SplitAt_AnyExtra(extra) == extra > 0

\* whether a block found with extra bytes to spare is split
SplitAt(extra) == extra >= minfragment

\* cut the tail of base off as a new free block
Split(st, z, base, size) ==
  LET extra == st.hdr[base].size - size
      fragment == base + size
      h0 == Scrub(st.hdr, fragment, fragment + SizeofMemblock + SizeofFreeblock)
      h1 == Put(h0, fragment,
              [next |-> h0[base].next, prev |-> base, size |-> extra,
               tag |-> TAG_FREE, id |-> ZONEID])
      h2 == [h1 EXCEPT ![h1[fragment].next].prev = fragment]
      h3 == [h2 EXCEPT ![base].next = fragment, ![base].size = size]
  IN  InsertFree([st EXCEPT !.hdr = h3], z, fragment)

\* Z_TagMalloc adding the size asked for to used, not base->size
TakeBlock_Requested(st, z, base, size, tag) ==
  LET s1 == IF SplitAt(st.hdr[base].size - size) THEN Split(st, z, base, size)
            ELSE st
      bsize == s1.hdr[base].size
      h1 == [s1.hdr EXCEPT ![base].tag = tag, ![base].id = ZONEID]
  IN  [s1 EXCEPT !.zone[z].used = @ + size,
                 !.hdr = Scrub(h1, base, base + bsize),
                 !.trash = Put(@, base + bsize - SizeofInt, ZONEID)]

\* Z_TagMalloc writing the trash marker at the end of the size asked for
TakeBlock_MarkerAtRequest(st, z, base, size, tag) ==
  LET s1 == IF SplitAt(st.hdr[base].size - size) THEN Split(st, z, base, size)
            ELSE st
      bsize == s1.hdr[base].size
      h1 == [s1.hdr EXCEPT ![base].tag = tag, ![base].id = ZONEID]
  IN  [s1 EXCEPT !.zone[z].used = @ + bsize,
                 !.hdr = Scrub(h1, base, base + bsize),
                 !.trash = Put(@, base + size - SizeofInt, ZONEID)]

\* Z_TagMalloc from "found a block big enough" on
TakeBlock(st, z, base, size, tag) ==
  LET s1 == IF SplitAt(st.hdr[base].size - size) THEN Split(st, z, base, size)
            ELSE st
      bsize == s1.hdr[base].size
      h1 == [s1.hdr EXCEPT ![base].tag = tag, ![base].id = ZONEID]
  IN  [s1 EXCEPT !.zone[z].used = @ + bsize,
                 \* the payload is the caller's now
                 !.hdr = Scrub(h1, base, base + bsize),
                 !.trash = Put(@, base + bsize - SizeofInt, ZONEID)]

\* [st, ret], ret the payload pointer (NULL after Com_Error)
Z_TagMalloc(st, size0, tag) ==
  LET z == ZoneOfTag(tag)
      size == BlockSize(size0)
      r == SearchFree(st, z, size)
  IN  IF tag = TAG_FREE THEN [st |-> Com_Error(st, "ERR_FATAL"), ret |-> NULL]
      ELSE IF r.st.err # "none" THEN [st |-> r.st, ret |-> NULL]
      ELSE [st |-> TakeBlock(RemoveFree(r.st, r.base), z, r.base, size, tag),
            ret |-> r.base + SizeofMemblock]

\* the Com_Memset( buf, 0, size ) stays inside the payload
Z_Malloc(st, size) == Z_TagMalloc(st, size, TAG_GENERAL)

S_Malloc(st, size) == Z_TagMalloc(st, size, TAG_SMALL)

(***************************************************************************)
(* The zone calls as actions.                                              *)
(***************************************************************************)
\* request sizes: block sizes 56 (small class) and 96 (medium class), and one
\* that no zone holds twice
BigSize == 8 * 1024 * 1024
ReqSizes == {16, 60, BigSize}
\* the sizes of tagged requests and of small-zone requests
TagSizes == {16, 60}
SmallSizes == {16, BigSize}
\* the request sizes of a recorded run: a block of 136 bytes with the trash
\* marker right behind the payload, and one with 4 bytes of padding between
ScriptSizes == {100, BigSize}
\* the tags the client uses
ClientTags == {TAG_GENERAL, TAG_RENDERER, TAG_SMALL}
\* the static strings the client frees: &emptystring.mem[0] and
\* &numberstring[3].mem[0]
ClientStatics == {StaticBlock(0) + SizeofMemblock, StaticBlock(4) + SizeofMemblock}

\* the record of a call: its name, the pointer passed or returned, the size
\* passed or the count returned, the tag and the preference
Call(op, ptr, n, tag, pref) ==
  [op |-> op, ptr |-> ptr, n |-> n, tag |-> tag, pref |-> pref]

\* the added segments of a zone
SegsOf(sg, z) == {i \in 1..Len(sg) : sg[i].zone = z}

\* what a recorded run keeps of a call: the call, each zone's used and number
\* of added segments after it, the size of the block its pointer is in, the
\* hunk banks and the permanent bank after it, and the error it ended with
Event(l, st) ==
  [call |-> l,
   used |-> [z \in Zones |-> st.zone[z].used],
   nseg |-> [z \in Zones |-> Cardinality(SegsOf(st.segs, z))],
   bsize |-> IF l.ptr - SizeofMemblock \in DOMAIN st.hdr
             THEN st.hdr[l.ptr - SizeofMemblock].size ELSE 0,
   hunk |-> st.hunk,
   hunk_permanent |-> st.hunk_permanent,
   err |-> st.err]

Commit(st) ==
  /\ hdr' = st.hdr
  /\ fl' = st.fl
  /\ zone' = st.zone
  /\ trash' = st.trash
  /\ err' = st.err
  /\ segs' = st.segs
  /\ hunk' = st.hunk
  /\ hunk_permanent' = st.hunk_permanent
  /\ hunk_temp' = st.hunk_temp
  /\ s_hunkData' = st.s_hunkData
  /\ s_hunkTotal' = st.s_hunkTotal
  /\ hunkmem' = st.hunkmem

\* a call is made while the process runs; a recorded run has MaxScript calls
Ready == err = "none" /\ (rec => Len(hist) < MaxScript)

\* the call made, and its record in a recorded run
Log(l, st) ==
  /\ last' = l
  /\ rec' = rec
  /\ hist' = IF rec THEN Append(hist, Event(l, st)) ELSE hist

\* what the client holds after a call: the pointers whose blocks are in use
Held(st, ps) ==
  [p \in {q \in DOMAIN ps : st.hdr[q - SizeofMemblock].tag # TAG_FREE} |-> ps[p]]

Alloc(r, size, op, tag) ==
  /\ Commit(r.st)
  /\ ptrs' = IF r.ret = NULL THEN ptrs ELSE Put(ptrs, r.ret, size)
  /\ Log(Call(op, r.ret, size, tag, ""), r.st)
  /\ zcalls' = zcalls + 1
  /\ UNCHANGED <<tptrs, hcalls>>

ZTagMalloc ==
  /\ Ready
  /\ zcalls < MaxAllocs
  /\ \E size \in TagSizes :
        Alloc(Z_TagMalloc(St, size, TAG_RENDERER), size, "Z_TagMalloc",
              TAG_RENDERER)

ZMalloc ==
  /\ Ready
  /\ zcalls < MaxAllocs
  /\ \E size \in IF rec THEN ScriptSizes ELSE ReqSizes :
        Alloc(Z_Malloc(St, size), size, "Z_Malloc", TAG_GENERAL)

SMalloc ==
  /\ Ready
  /\ zcalls < MaxAllocs
  /\ \E size \in SmallSizes :
        Alloc(S_Malloc(St, size), size, "S_Malloc", TAG_SMALL)

\* Z_Free of a pointer the client holds or of a static string
ZFree ==
  /\ Ready
  /\ \E ptr \in DOMAIN ptrs \cup (IF rec THEN {} ELSE ClientStatics) :
        LET st == Z_Free(St, ptr)
        IN  /\ Commit(st)
            /\ ptrs' = IF st.err = "none" THEN Drop(ptrs, {ptr}) ELSE ptrs
            /\ Log(Call("Z_Free", ptr, 0, hdr[ptr - SizeofMemblock].tag, ""),
                   st)
            /\ UNCHANGED <<tptrs, hcalls, zcalls>>

ZFreeTags ==
  /\ Ready
  /\ \E tag \in ClientTags :
        LET r == Z_FreeTags(St, tag)
        IN  /\ Commit(r.st)
            /\ ptrs' = Held(r.st, ptrs)
            /\ Log(Call("Z_FreeTags", NULL, r.count, tag, ""), r.st)
            /\ UNCHANGED <<tptrs, hcalls, zcalls>>

\* the pointers a recorded run has freed, with no allocation made since
FreedPtrs ==
  {hist[k].call.ptr :
     k \in {i \in 1..Len(hist) :
              /\ hist[i].call.op = "Z_Free"
              /\ hist[i].err = "none"
              /\ \A m \in (i + 1)..Len(hist) : hist[m].call.op # "Z_Malloc"}}

\* Z_Free of a pointer that was freed before
ZFreeAgain ==
  /\ Ready
  /\ rec
  /\ \E ptr \in FreedPtrs :
        LET st == Z_Free(St, ptr)
        IN  /\ Commit(st)
            /\ Log(Call("Z_Free", ptr, 0, hdr[ptr - SizeofMemblock].tag, ""),
                   st)
            /\ UNCHANGED <<ptrs, tptrs, hcalls, zcalls>>

\* the client writes one byte at payload offset size of a block it holds,
\* changing the byte's value: the trash marker is hit when it starts there
Overrun(st, ptr, size) ==
  LET block == ptr - SizeofMemblock
      byte == ptr + size
      marker == TrashAddr(st, block)
  IN  IF marker <= byte /\ byte < marker + SizeofInt
      THEN [st EXCEPT !.trash[marker] = ZONEID + 1]
      ELSE st

ClientOverrun ==
  /\ Ready
  /\ \E ptr \in DOMAIN ptrs :
        /\ Commit(Overrun(St, ptr, ptrs[ptr]))
        /\ Log(Call("overrun", ptr, ptrs[ptr], hdr[ptr - SizeofMemblock].tag, ""),
               Overrun(St, ptr, ptrs[ptr]))
        /\ UNCHANGED <<ptrs, tptrs, hcalls, zcalls>>

(***************************************************************************)
(* The hunk.                                                               *)
(***************************************************************************)
\* where calloc( s_hunkTotal + 63, 1 ) lands after PADP( s_hunkData, 64 )
HunkAddr == 1073741824
\* sizeof( hunkHeader_t ): two unsigned ints
SizeofHunkHeader == 8
\* the cache line Hunk_Alloc rounds to
CacheLine == 64

\* ha_pref
Prefs == {"h_high", "h_low", "h_dontcare"}

\* Hunk_Clear leaving the marks as they are
Hunk_Clear_KeepMark(st) ==
  [st EXCEPT !.hunk = [b \in {"hunk_low", "hunk_high"} |->
                        [ZeroBank EXCEPT !.mark = st.hunk[b].mark]],
             !.hunk_permanent = "hunk_low",
             !.hunk_temp = "hunk_high"]

Hunk_Clear(st) ==
  [st EXCEPT !.hunk = [hunk_low |-> ZeroBank, hunk_high |-> ZeroBank],
             !.hunk_permanent = "hunk_low",
             !.hunk_temp = "hunk_high"]

Com_InitHunkMemory(st) ==
  Hunk_Clear([st EXCEPT !.s_hunkTotal = DEF_COMHUNKMEGS * 1024 * 1024,
                        !.s_hunkData = HunkAddr])

Max(a, b) == IF a > b THEN a ELSE b

Hunk_MemoryRemaining(st) ==
  st.s_hunkTotal
    - (Max(st.hunk.hunk_low.permanent, st.hunk.hunk_low.temp)
       + Max(st.hunk.hunk_high.permanent, st.hunk.hunk_high.temp))

\* Hunk_SetMark marking the low bank only
Hunk_SetMark_LowOnly(st) ==
  [st EXCEPT !.hunk.hunk_low.mark = st.hunk.hunk_low.permanent]

Hunk_SetMark(st) ==
  [st EXCEPT !.hunk.hunk_low.mark = st.hunk.hunk_low.permanent,
             !.hunk.hunk_high.mark = st.hunk.hunk_high.permanent]

ClearBankToMark(b) == [b EXCEPT !.permanent = b.mark, !.temp = b.mark]

Hunk_ClearToMark(st) ==
  [st EXCEPT !.hunk.hunk_low = ClearBankToMark(@),
             !.hunk.hunk_high = ClearBankToMark(@)]

Hunk_CheckMark(st) ==
  st.hunk.hunk_low.mark # 0 \/ st.hunk.hunk_high.mark # 0

\* Hunk_SwapBanks and Hunk_Alloc taking no notice of temp memory
TempLive_Never(st) == FALSE

\* "can't swap banks if there is any temp already allocated"
TempLive(st) ==
  st.hunk[st.hunk_temp].temp # st.hunk[st.hunk_temp].permanent

\* Hunk_SwapBanks swapping for an equal wasted highwater mark too
SwapWanted_OrEqual(st) ==
  st.hunk[st.hunk_temp].tempHighwater - st.hunk[st.hunk_temp].permanent
    >= st.hunk[st.hunk_permanent].tempHighwater
        - st.hunk[st.hunk_permanent].permanent

\* the temp side has the larger wasted highwater mark
SwapWanted(st) ==
  st.hunk[st.hunk_temp].tempHighwater - st.hunk[st.hunk_temp].permanent
    > st.hunk[st.hunk_permanent].tempHighwater
        - st.hunk[st.hunk_permanent].permanent

\* Hunk_SwapBanks without the test for temp already allocated
Hunk_SwapBanks_Always(st) ==
  IF SwapWanted(st)
  THEN [st EXCEPT !.hunk_temp = st.hunk_permanent,
                  !.hunk_permanent = st.hunk_temp]
  ELSE st

Hunk_SwapBanks(st) ==
  IF TempLive(st) THEN st
  ELSE IF SwapWanted(st)
  THEN [st EXCEPT !.hunk_temp = st.hunk_permanent,
                  !.hunk_permanent = st.hunk_temp]
  ELSE st

\* Hunk_Alloc taking the permanent bank as it is
PreferBank_Never(st, preference) == st

\* the bank choice at the head of Hunk_Alloc
PreferBank(st, preference) ==
  IF preference = "h_dontcare" \/ TempLive(st) THEN Hunk_SwapBanks(st)
  ELSE IF preference = "h_low" /\ st.hunk_permanent # "hunk_low"
  THEN Hunk_SwapBanks(st)
  ELSE IF preference = "h_high" /\ st.hunk_permanent # "hunk_high"
  THEN Hunk_SwapBanks(st)
  ELSE st

\* Hunk_Alloc without the test for "out of memory"
HunkAllocFits_Always(st, size) == TRUE

\* Hunk_Alloc's test for "out of memory"
HunkAllocFits(st, size) ==
  st.hunk.hunk_low.temp + st.hunk.hunk_high.temp + size <= st.s_hunkTotal

\* Com_Memset( buf, 0, size ) over hunk memory wipes the frame headers in it
HunkZero(m, buf, size) ==
  Drop(m, {a \in DOMAIN m : a + SizeofHunkHeader > buf /\ a < buf + size})

\* Hunk_Alloc without hunk_permanent->temp = hunk_permanent->permanent
Hunk_Alloc_NoTemp(st, size0, preference) ==
  LET s1 == PreferBank(st, preference)
      size == PAD(size0, CacheLine)
      p == s1.hunk_permanent
      perm == s1.hunk[p].permanent + size
      buf == IF p = "hunk_low"
             THEN s1.s_hunkData + s1.hunk[p].permanent
             ELSE s1.s_hunkData + s1.s_hunkTotal - perm
  IN  IF st.s_hunkData = NULL
      THEN [st |-> Com_Error(st, "ERR_FATAL"), ret |-> NULL]
      ELSE IF ~HunkAllocFits(s1, size)
      THEN [st |-> Com_Error(s1, "ERR_DROP"), ret |-> NULL]
      ELSE [st |-> [s1 EXCEPT !.hunk[p].permanent = perm,
                              !.hunkmem = HunkZero(@, buf, size)],
            ret |-> buf]

\* [st, ret]
Hunk_Alloc(st, size0, preference) ==
  LET s1 == PreferBank(st, preference)
      size == PAD(size0, CacheLine)
      p == s1.hunk_permanent
      perm == s1.hunk[p].permanent + size
      buf == IF p = "hunk_low"
             THEN s1.s_hunkData + s1.hunk[p].permanent
             ELSE s1.s_hunkData + s1.s_hunkTotal - perm
  IN  IF st.s_hunkData = NULL
      THEN [st |-> Com_Error(st, "ERR_FATAL"), ret |-> NULL]
      ELSE IF ~HunkAllocFits(s1, size)
      THEN [st |-> Com_Error(s1, "ERR_DROP"), ret |-> NULL]
      ELSE [st |-> [s1 EXCEPT !.hunk[p].permanent = perm,
                              !.hunk[p].temp = perm,
                              !.hunkmem = HunkZero(@, buf, size)],
            ret |-> buf]

\* Hunk_AllocateTempMemory's test for "out of memory"
HunkTempFits(st, size) ==
  st.hunk[st.hunk_temp].temp + st.hunk[st.hunk_permanent].permanent + size
    <= st.s_hunkTotal

\* Hunk_AllocateTempMemory advancing temp before the test for "out of memory"
Hunk_AllocateTempMemory_AdvanceFirst(st, size0) ==
  LET s1 == Hunk_SwapBanks(st)
      size == PAD(size0, SizeofIntptr) + SizeofHunkHeader
      t == s1.hunk_temp
      temp == s1.hunk[t].temp + size
      buf == IF t = "hunk_low"
             THEN s1.s_hunkData + s1.hunk[t].temp
             ELSE s1.s_hunkData + s1.s_hunkTotal - temp
      high == IF temp > s1.hunk[t].tempHighwater THEN temp
              ELSE s1.hunk[t].tempHighwater
  IN  IF st.s_hunkData = NULL THEN Z_Malloc(st, size0)
      ELSE IF ~HunkTempFits(s1, size)
      THEN [st |-> Com_Error([s1 EXCEPT !.hunk[t].temp = temp], "ERR_DROP"),
            ret |-> NULL]
      ELSE [st |-> [s1 EXCEPT !.hunk[t].temp = temp,
                              !.hunk[t].tempHighwater = high,
                              !.hunkmem = Put(@, buf, [magic |-> "HUNK_MAGIC",
                                                       size |-> size])],
            ret |-> buf + SizeofHunkHeader]

\* [st, ret]
Hunk_AllocateTempMemory(st, size0) ==
  LET s1 == Hunk_SwapBanks(st)
      size == PAD(size0, SizeofIntptr) + SizeofHunkHeader
      t == s1.hunk_temp
      temp == s1.hunk[t].temp + size
      buf == IF t = "hunk_low"
             THEN s1.s_hunkData + s1.hunk[t].temp
             ELSE s1.s_hunkData + s1.s_hunkTotal - temp
      high == IF temp > s1.hunk[t].tempHighwater THEN temp
              ELSE s1.hunk[t].tempHighwater
  IN  IF st.s_hunkData = NULL THEN Z_Malloc(st, size0)
      ELSE IF ~HunkTempFits(s1, size)
      THEN [st |-> Com_Error(s1, "ERR_DROP"), ret |-> NULL]
      ELSE [st |-> [s1 EXCEPT !.hunk[t].temp = temp,
                              !.hunk[t].tempHighwater = high,
                              !.hunkmem = Put(@, buf, [magic |-> "HUNK_MAGIC",
                                                       size |-> size])],
            ret |-> buf + SizeofHunkHeader]

\* hdr->magic; memory Hunk_Alloc has zeroed reads as 0
HunkMagic(st, hdr_) ==
  IF hdr_ \in DOMAIN st.hunkmem THEN st.hunkmem[hdr_].magic ELSE "0"

\* Hunk_FreeTempMemory rolling back whatever frame is freed
IsTopFrame_Always(st, hdr_) == TRUE

\* whether the frame at hdr is the last one of the temp bank
IsTopFrame(st, hdr_) ==
  IF st.hunk_temp = "hunk_low"
  THEN hdr_ = st.s_hunkData + st.hunk[st.hunk_temp].temp - st.hunkmem[hdr_].size
  ELSE hdr_ = st.s_hunkData + st.s_hunkTotal - st.hunk[st.hunk_temp].temp

\* Hunk_FreeTempMemory without the Z_Free of an uninitialised hunk
Hunk_FreeTempMemory_NoFallback(st, buf) ==
  LET hdr_ == buf - SizeofHunkHeader
      s1 == [st EXCEPT !.hunkmem[hdr_].magic = "HUNK_FREE_MAGIC"]
  IN  IF HunkMagic(st, hdr_) # "HUNK_MAGIC"
      THEN Com_Error(st, "ERR_FATAL")
      ELSE IF IsTopFrame(s1, hdr_)
      THEN [s1 EXCEPT !.hunk[st.hunk_temp].temp = @ - st.hunkmem[hdr_].size]
      ELSE s1

Hunk_FreeTempMemory(st, buf) ==
  LET hdr_ == buf - SizeofHunkHeader
      s1 == [st EXCEPT !.hunkmem[hdr_].magic = "HUNK_FREE_MAGIC"]
  IN  IF st.s_hunkData = NULL THEN Z_Free(st, buf)
      ELSE IF HunkMagic(st, hdr_) # "HUNK_MAGIC"
      THEN Com_Error(st, "ERR_FATAL")
      ELSE IF IsTopFrame(s1, hdr_)
      THEN [s1 EXCEPT !.hunk[st.hunk_temp].temp = @ - st.hunkmem[hdr_].size]
      ELSE s1

Hunk_ClearTempMemory(st) ==
  IF st.s_hunkData # NULL
  THEN [st EXCEPT !.hunk[st.hunk_temp].temp = st.hunk[st.hunk_temp].permanent]
  ELSE st

Com_Init == Com_InitHunkMemory(ZoneBoot)

(***************************************************************************)
(* The hunk calls as actions.  The client frees the temp buffers it holds; *)
(* Hunk_ClearTempMemory, Hunk_ClearToMark and Hunk_Clear end their life.   *)
(***************************************************************************)
\* most hunk allocations made in one run
MaxHunkCalls == 3

HunkSizes == {1000, 100 * 1024, 30 * 1024 * 1024}
\* the permanent and the temp request sizes of a recorded run
HunkScriptSizes == {1000, 10 * 1024}
TempScriptSizes == {500, 100 * 1024}

\* a request that takes more than half the hunk is made in the first two
\* calls of a recorded run, if at all
HunkScriptSizesAt(n) ==
  IF n < 2 THEN HunkScriptSizes \cup {30 * 1024 * 1024} ELSE HunkScriptSizes

\* the temp request sizes: before Com_InitHunkMemory the files loaded are
\* small, or of a size the main zone holds once
TempSizesAt(data) ==
  IF data = NULL THEN ScriptSizes
  ELSE IF rec THEN TempScriptSizes ELSE HunkSizes

\* a recorded run of hunk calls has MaxHunkScript calls
HunkReady == Ready /\ (rec => Len(hist) < MaxHunkScript)

HunkAlloc ==
  /\ HunkReady
  /\ hcalls < MaxHunkCalls
  /\ \E size \in IF rec THEN HunkScriptSizesAt(Len(hist)) ELSE HunkSizes,
        preference \in Prefs :
        LET r == Hunk_Alloc(St, size, preference)
        IN  /\ Commit(r.st)
            /\ hcalls' = hcalls + 1
            /\ Log(Call("Hunk_Alloc", r.ret, size, TAG_FREE, preference), r.st)
            /\ UNCHANGED <<ptrs, tptrs, zcalls>>

HunkAllocateTempMemory ==
  /\ HunkReady
  /\ hcalls < MaxHunkCalls
  /\ \E size \in TempSizesAt(s_hunkData) :
        LET r == Hunk_AllocateTempMemory(St, size)
        IN  /\ Commit(r.st)
            /\ hcalls' = hcalls + 1
            /\ tptrs' = IF r.ret = NULL THEN tptrs ELSE tptrs \cup {r.ret}
            /\ Log(Call("Hunk_AllocateTempMemory", r.ret, size, TAG_FREE, ""),
                   r.st)
            /\ UNCHANGED <<ptrs, zcalls>>

HunkFreeTempMemory ==
  /\ HunkReady
  /\ \E buf \in tptrs :
        LET st == Hunk_FreeTempMemory(St, buf)
        IN  /\ Commit(st)
            /\ tptrs' = tptrs \ {buf}
            /\ Log(Call("Hunk_FreeTempMemory", buf, 0, TAG_FREE, ""), st)
            /\ UNCHANGED <<ptrs, hcalls, zcalls>>

HunkClearTempMemory ==
  /\ HunkReady
  /\ Commit(Hunk_ClearTempMemory(St))
  /\ tptrs' = IF s_hunkData = NULL THEN tptrs ELSE {}
  /\ Log(Call("Hunk_ClearTempMemory", NULL, 0, TAG_FREE, ""),
         Hunk_ClearTempMemory(St))
  /\ UNCHANGED <<ptrs, hcalls, zcalls>>

HunkSetMark ==
  /\ HunkReady
  /\ Commit(Hunk_SetMark(St))
  /\ Log(Call("Hunk_SetMark", NULL, 0, TAG_FREE, ""), Hunk_SetMark(St))
  /\ UNCHANGED <<ptrs, tptrs, hcalls, zcalls>>

HunkClearToMark ==
  /\ HunkReady
  /\ Commit(Hunk_ClearToMark(St))
  /\ tptrs' = {}
  /\ Log(Call("Hunk_ClearToMark", NULL, 0, TAG_FREE, ""), Hunk_ClearToMark(St))
  /\ UNCHANGED <<ptrs, hcalls, zcalls>>

HunkClear ==
  /\ HunkReady
  /\ Commit(Hunk_Clear(St))
  /\ tptrs' = {}
  /\ Log(Call("Hunk_Clear", NULL, 0, TAG_FREE, ""), Hunk_Clear(St))
  /\ UNCHANGED <<ptrs, hcalls, zcalls>>

(***************************************************************************)
(* Specifications: the state after Com_Init, then the zone calls           *)
(* (ZoneSpec) or the hunk calls (HunkSpec) in any order; ScriptSpec is a   *)
(* recorded run of Z_Malloc, Z_Free (double frees too) and overruns of at  *)
(* most MaxScript                                                          *)
(* calls, HunkScriptSpec a recorded run of at most MaxHunkScript hunk      *)
(* calls, PreHunkSpec such a run made before Com_InitHunkMemory.           *)
(***************************************************************************)
Booted ==
  /\ hdr = Com_Init.hdr
  /\ fl = Com_Init.fl
  /\ zone = Com_Init.zone
  /\ trash = Com_Init.trash
  /\ err = Com_Init.err
  /\ segs = Com_Init.segs
  /\ hunk = Com_Init.hunk
  /\ hunk_permanent = Com_Init.hunk_permanent
  /\ hunk_temp = Com_Init.hunk_temp
  /\ s_hunkData = Com_Init.s_hunkData
  /\ s_hunkTotal = Com_Init.s_hunkTotal
  /\ hunkmem = Com_Init.hunkmem
  /\ ptrs = Empty
  /\ tptrs = {}
  /\ zcalls = 0
  /\ hcalls = 0
  /\ last = Call("Com_Init", NULL, 0, TAG_FREE, "")
  /\ hist = <<>>

Init == Booted /\ rec = FALSE

ZoneNext == ZTagMalloc \/ ZMalloc \/ SMalloc \/ ZFree \/ ZFreeTags

ZoneSpec == Init /\ [][ZoneNext]_vars

HunkNext ==
  \/ HunkAlloc
  \/ HunkAllocateTempMemory
  \/ HunkFreeTempMemory
  \/ HunkClearTempMemory
  \/ HunkSetMark
  \/ HunkClearToMark
  \/ HunkClear

HunkSpec == Init /\ [][HunkNext]_vars

ScriptInit == Booted /\ rec = TRUE

ScriptNext == ZMalloc \/ ZFree \/ ZFreeAgain \/ ClientOverrun

ScriptSpec == ScriptInit /\ [][ScriptNext]_vars

HunkScriptNext ==
  \/ HunkAlloc
  \/ HunkAllocateTempMemory
  \/ HunkFreeTempMemory
  \/ HunkClearTempMemory
  \/ HunkSetMark
  \/ HunkClearToMark

HunkScriptSpec == ScriptInit /\ [][HunkScriptNext]_vars

\* the state after Com_InitSmallZoneMemory and Com_InitZoneMemory, before
\* Com_InitHunkMemory: a recorded run of the hunk calls made that early
PreHunkInit ==
  /\ hdr = ZoneBoot.hdr
  /\ fl = ZoneBoot.fl
  /\ zone = ZoneBoot.zone
  /\ trash = ZoneBoot.trash
  /\ err = ZoneBoot.err
  /\ segs = ZoneBoot.segs
  /\ hunk = ZoneBoot.hunk
  /\ hunk_permanent = ZoneBoot.hunk_permanent
  /\ hunk_temp = ZoneBoot.hunk_temp
  /\ s_hunkData = ZoneBoot.s_hunkData
  /\ s_hunkTotal = ZoneBoot.s_hunkTotal
  /\ hunkmem = ZoneBoot.hunkmem
  /\ ptrs = Empty
  /\ tptrs = {}
  /\ zcalls = 0
  /\ hcalls = 0
  /\ last = Call("Com_InitZoneMemory", NULL, 0, TAG_FREE, "")
  /\ rec = TRUE
  /\ hist = <<>>

PreHunkNext ==
  \/ HunkAlloc
  \/ HunkAllocateTempMemory
  \/ HunkFreeTempMemory
  \/ HunkClearTempMemory

PreHunkSpec == PreHunkInit /\ [][PreHunkNext]_vars

(***************************************************************************)
(* What a zone looks like, for the properties below.                       *)
(***************************************************************************)
\* the blocks from b to the end cap, following next (at most n of them)
RECURSIVE ListFrom(_, _, _, _)
ListFrom(h, b, cap, n) ==
  IF b = cap \/ n = 0 \/ b \notin DOMAIN h THEN <<>>
  ELSE <<b>> \o ListFrom(h, h[b].next, cap, n - 1)

\* the zone's block list, in list order, the end cap left out
BlockListOf(h, z) == ListFrom(h, h[Cap(z)].next, Cap(z), Cardinality(DOMAIN h))

BlockList(z) == BlockListOf(hdr, z)

Range(q) == {q[i] : i \in 1..Len(q)}

\* a segment separator, as Z_CheckHeap recognises one
IsSeparator(h, b) ==
  h[b].size = 0 /\ h[b].id = -ZONEID /\ h[b].tag = TAG_GENERAL

\* the blocks handed to the client and not freed
InUseOf(h, z) ==
  {b \in Range(BlockListOf(h, z)) : h[b].tag # TAG_FREE /\ h[b].id = ZONEID}

FreeOf(h, z) == {b \in Range(BlockListOf(h, z)) : h[b].tag = TAG_FREE}

\* the nodes of the free list with this head, following next
RECURSIVE NodesFrom(_, _, _, _)
NodesFrom(f, fb, head, n) ==
  IF fb = head \/ n = 0 \/ fb \notin DOMAIN f THEN <<>>
  ELSE <<fb>> \o NodesFrom(f, f[fb].next, head, n - 1)

FreeListOf(f, head) == NodesFrom(f, f[head].next, head, Cardinality(DOMAIN f))

RECURSIVE SumSizes(_, _)
SumSizes(h, bs) ==
  IF bs = {} THEN 0
  ELSE LET b == CHOOSE x \in bs : TRUE IN h[b].size + SumSizes(h, bs \ {b})

\* the bytes calloc gave for these segments, separators included
RECURSIVE SumSegs(_, _)
SumSegs(sg, is) ==
  IF is = {} THEN 0
  ELSE LET i == CHOOSE x \in is : TRUE
       IN  sg[i].size + SizeofMemblock + SumSegs(sg, is \ {i})

(***************************************************************************)
(* C1: after every zone call no two blocks that are neighbours in a zone's *)
(* block list are both free.                                               *)
(***************************************************************************)
C1_NoAdjacentFree ==
  \A z \in Zones :
    LET L == BlockList(z)
    IN  /\ Len(L) >= 1
        /\ hdr[L[Len(L)]].next = Cap(z)
        /\ \A i \in 1..(Len(L) - 1) :
             ~(hdr[L[i]].tag = TAG_FREE /\ hdr[L[i + 1]].tag = TAG_FREE)

\* a Z_Free has merged the freed block into its free predecessor
C1_Witness ==
  /\ last.op = "Z_Free"
  /\ err = "none"
  /\ last.ptr - SizeofMemblock \notin Range(BlockList(ZoneOfTag(last.tag)))
  /\ last.tag # TAG_STATIC

(***************************************************************************)
(* C2: after every zone call each free block is in exactly one free list,  *)
(* the one of its size class (size <= 64 small, size <= 128 medium,        *)
(* otherwise large), and the free lists hold nothing but the free blocks.  *)
(***************************************************************************)
C2_FreeListsExact ==
  \A z \in Zones :
    LET small == FreeListOf(fl, FreelistSmall(z))
        medium == FreeListOf(fl, FreelistMedium(z))
        large == FreeListOf(fl, Freelist(z))
        tiny == FreeListOf(fl, FreelistTiny(z))
        all == small \o medium \o large \o tiny
        nodes == {b + SizeofMemblock : b \in FreeOf(hdr, z)}
    IN  /\ Range(all) = nodes
        /\ Len(all) = Cardinality(nodes)
        /\ \A i \in 1..Len(small) : hdr[small[i] - SizeofMemblock].size <= 64
        /\ \A i \in 1..Len(medium) :
             /\ hdr[medium[i] - SizeofMemblock].size > 64
             /\ hdr[medium[i] - SizeofMemblock].size <= 128
        /\ \A i \in 1..Len(large) : hdr[large[i] - SizeofMemblock].size > 128
        /\ \A i \in 1..Len(all) : fl[fl[all[i]].next].prev = all[i]

\* a Z_Free has left a zone with a medium and a large free block, and a
\* small-class block is in use next to them
C2_Witness ==
  /\ last.op = "Z_Free"
  /\ err = "none"
  /\ \E z \in Zones :
        /\ Len(FreeListOf(fl, FreelistMedium(z))) >= 1
        /\ Len(FreeListOf(fl, Freelist(z))) >= 1
        /\ \E b \in InUseOf(hdr, z) : hdr[b].size <= 64

(***************************************************************************)
(* C3: after every zone call each block ends where the next one starts,    *)
(* unless the next one is a segment separator or the end cap; every        *)
(* segment is covered by its blocks without gap or overlap.                *)
(***************************************************************************)
\* the bytes from block b to the end of its segment, going by the sizes
RECURSIVE SpanFrom(_, _, _)
SpanFrom(h, b, n) ==
  IF n = 0 THEN 0
  ELSE LET nx == h[b].next
       IN  IF IsSeparator(h, nx) THEN h[b].size
           ELSE h[b].size + SpanFrom(h, nx, n - 1)

\* C3 as stated: it takes no account of the separator itself, whose
\* size is 0 while its header fills sizeof( memblock_t ) bytes
C3_Original ==
  \A z \in Zones :
    \A b \in Range(BlockList(z)) :
      \/ IsSeparator(hdr, hdr[b].next)
      \/ b + hdr[b].size = hdr[b].next

\* C3 as amended: a block that is no separator ends where the next one
\* starts (or at its segment's end), a separator is followed at once by its
\* segment's first block, and the blocks of a segment cover it exactly
C3_Contiguous ==
  \A z \in Zones :
    LET L == BlockList(z)
    IN  /\ \A i \in 1..Len(L) :
             LET b == L[i]
                 nx == hdr[b].next
             IN  /\ hdr[nx].prev = b
                 /\ hdr[b].size >= 0
                 /\ IF IsSeparator(hdr, b) THEN b + SizeofMemblock = nx
                    ELSE IsSeparator(hdr, nx) \/ b + hdr[b].size = nx
        /\ SpanFrom(hdr, ZoneAddr(z) + SizeofMemzone, Len(L))
              + SumSegs(segs, SegsOf(segs, z)) = zone[z].size - SizeofMemzone
        /\ \A i \in SegsOf(segs, z) :
             /\ segs[i].sep \in Range(L)
             /\ SpanFrom(hdr, segs[i].sep + SizeofMemblock, Len(L)) = segs[i].size

\* a zone that has grown by a segment and has split and merged blocks
C3_Witness ==
  /\ SegsOf(segs, "mainzone") # {}
  /\ Len(BlockList("mainzone")) >= 5
  /\ last.op = "Z_Free"
  /\ err = "none"

(***************************************************************************)
(* C4: used never exceeds size and equals the sizes of the in-use blocks   *)
(* plus one header per added segment; a successful allocation adds the     *)
(* size of the block it returns (and one header per segment it adds), a    *)
(* Z_Free of a block takes the block's size off again.                     *)
(***************************************************************************)
C4_Inv ==
  \A z \in Zones :
    /\ zone[z].used <= zone[z].size
    /\ zone[z].used = SumSizes(hdr, InUseOf(hdr, z))
                        + SizeofMemblock * Cardinality(SegsOf(segs, z))

C4_Step ==
  LET l == last'
      z == ZoneOfTag(l.tag)
      grown == Cardinality(SegsOf(segs', z)) - Cardinality(SegsOf(segs, z))
  IN  /\ (l.op \in {"Z_TagMalloc", "Z_Malloc", "S_Malloc"} /\ l.ptr # NULL)
           => /\ zone'[z].used = zone[z].used + hdr'[l.ptr - SizeofMemblock].size
                                   + SizeofMemblock * grown
              /\ \A o \in Zones \ {z} : zone'[o] = zone[o]
      /\ (l.op = "Z_Free" /\ l.tag # TAG_STATIC /\ err' = "none")
           => /\ zone'[z].used = zone[z].used - hdr[l.ptr - SizeofMemblock].size
              /\ segs' = segs
              /\ \A o \in Zones \ {z} : zone'[o] = zone[o]

\* C4: the accounting holds in every state and over every call
C4_UsedAccounting == [](C4_Inv) /\ [][C4_Step]_vars

\* a grown zone with blocks in use, one block just freed
C4_Witness ==
  /\ last.op = "Z_Free"
  /\ last.tag # TAG_STATIC
  /\ err = "none"
  /\ SegsOf(segs, "mainzone") # {}
  /\ InUseOf(hdr, "mainzone") # {}

(***************************************************************************)
(* C5: in a recorded run, n allocations in a row followed by the n frees   *)
(* of their pointers, in any order, leave used where it was before the     *)
(* first of them plus one header for each segment added meanwhile; the     *)
(* number of added segments never goes down.                               *)
(***************************************************************************)
\* used and added segments after the first i calls
UsedAt(i, z) == IF i = 0 THEN Com_Init.zone[z].used ELSE hist[i].used[z]
NsegAt(i, z) == IF i = 0 THEN 0 ELSE hist[i].nseg[z]

\* calls i+1..i+n allocate, calls i+n+1..i+2n free what they allocated
RoundTrip(i, n) ==
  /\ i + 2 * n <= Len(hist)
  /\ \A k \in (i + 1)..(i + n) :
        hist[k].call.op = "Z_Malloc" /\ hist[k].call.ptr # NULL
  /\ \A k \in (i + n + 1)..(i + 2 * n) :
        hist[k].call.op = "Z_Free" /\ hist[k].err = "none"
  /\ {hist[k].call.ptr : k \in (i + 1)..(i + n)}
        = {hist[k].call.ptr : k \in (i + n + 1)..(i + 2 * n)}

C5_RoundTrip ==
  /\ \A i \in 0..Len(hist), n \in 1..Len(hist) :
        RoundTrip(i, n) =>
          \A z \in Zones :
            UsedAt(i + 2 * n, z)
              = UsedAt(i, z)
                  + SizeofMemblock * (NsegAt(i + 2 * n, z) - NsegAt(i, z))
  /\ \A i \in 0..Len(hist), j \in 0..Len(hist) :
        i <= j => \A z \in Zones : NsegAt(i, z) <= NsegAt(j, z)

\* three allocations, the zone growing by a segment, freed middle one first
C5_Witness ==
  /\ RoundTrip(0, 3)
  /\ hist[4].call.ptr = hist[2].call.ptr
  /\ hist[6].call.ptr = hist[3].call.ptr
  /\ NsegAt(6, "mainzone") = 1

(***************************************************************************)
(* C6: scenario S1.  After a, b, c = Z_Malloc(100) and Z_Free(b),          *)
(* Z_Free(a) on a fresh zone: one free block of size >= a.size + b.size,   *)
(* one block in use (c), used = c.size.                                    *)
(***************************************************************************)
S1 ==
  /\ Len(hist) = 5
  /\ \A k \in 1..3 :
        /\ hist[k].call.op = "Z_Malloc"
        /\ hist[k].call.n = 100
        /\ hist[k].call.tag = TAG_GENERAL
  /\ hist[4].call.op = "Z_Free" /\ hist[4].call.ptr = hist[2].call.ptr
  /\ hist[5].call.op = "Z_Free" /\ hist[5].call.ptr = hist[1].call.ptr

\* the blocks of a, b and c
S1_a == hist[1].call.ptr - SizeofMemblock
S1_c == hist[3].call.ptr - SizeofMemblock

\* C6 as stated, read as "one free block is that large": the free
\* rest of the zone behind c is a second one
C6_Original ==
  S1 => /\ Cardinality({b \in FreeOf(hdr, "mainzone") :
                          hdr[b].size >= hist[1].bsize + hist[2].bsize}) = 1
        /\ InUseOf(hdr, "mainzone") = {S1_c}
        /\ zone["mainzone"].used = hdr[S1_c].size

\* C6 as amended: after S1 there are two free blocks, a merged with b in
\* front of c (a.size + b.size bytes) and the rest of the zone behind c; c
\* alone is in use and used = c.size
C6_S1 ==
  S1 => /\ err = "none"
        /\ FreeOf(hdr, "mainzone") = {S1_a, S1_c + hdr[S1_c].size}
        /\ hdr[S1_a].size = hist[1].bsize + hist[2].bsize
        /\ hdr[S1_a].next = S1_c
        /\ hdr[S1_c].next = S1_c + hdr[S1_c].size
        /\ InUseOf(hdr, "mainzone") = {S1_c}
        /\ zone["mainzone"].used = hdr[S1_c].size
        /\ hdr[S1_c].size = hist[3].bsize

C6_Witness == S1 /\ err = "none" /\ hist[1].bsize = 136

(***************************************************************************)
(* C7: Z_FreeTags(tag) returns normally, frees every in-use block with the *)
(* tag, returns how many there were before the call, and leaves the other  *)
(* in-use blocks where they are, with their tag and size.                  *)
(***************************************************************************)
AllInUse(h) == UNION {InUseOf(h, z) : z \in Zones}

C7_Step ==
  LET tag == last'.tag
      had == {b \in AllInUse(hdr) : hdr[b].tag = tag}
  IN  last'.op = "Z_FreeTags" =>
        /\ err' = "none"
        /\ last'.n = Cardinality(had)
        /\ AllInUse(hdr') = AllInUse(hdr) \ had
        /\ \A b \in AllInUse(hdr') :
              hdr'[b].tag = hdr[b].tag /\ hdr'[b].size = hdr[b].size
        /\ \A z \in Zones :
              \A b \in FreeOf(hdr', z) : hdr'[b].tag # tag
        /\ segs' = segs

\* C7: every Z_FreeTags call frees and counts the blocks with its tag
C7_FreeTags == [][C7_Step]_vars

\* two blocks or more freed at once, another tag's block staying
C7_Witness ==
  /\ last.op = "Z_FreeTags"
  /\ last.n >= 2
  /\ err = "none"
  /\ \E b \in InUseOf(hdr, ZoneOfTag(last.tag)) : hdr[b].tag # TAG_GENERAL

(***************************************************************************)
(* C8: Z_Free of the payload pointer of a TAG_STATIC block returns and     *)
(* leaves both zones as they are.                                          *)
(***************************************************************************)
C8_Step ==
  (last'.op = "Z_Free" /\ last'.tag = TAG_STATIC) =>
     /\ err' = "none"
     /\ UNCHANGED <<hdr, fl, zone, trash, segs>>

\* C8: every Z_Free of a static block changes nothing
C8_StaticFree == [][C8_Step]_vars

\* a static string freed while the client holds blocks
C8_Witness ==
  /\ last.op = "Z_Free"
  /\ last.tag = TAG_STATIC
  /\ err = "none"
  /\ DOMAIN ptrs # {}
  /\ zone["mainzone"].used > 0

(***************************************************************************)
(* C9: in a recorded run, a Z_Free that follows an overrun of its block by *)
(* one byte ends in ERR_FATAL.                                             *)
(***************************************************************************)
OverrunThenFree(i) ==
  /\ i + 1 <= Len(hist)
  /\ hist[i].call.op = "overrun"
  /\ hist[i + 1].call.op = "Z_Free"
  /\ hist[i + 1].call.ptr = hist[i].call.ptr

\* C9 as stated, for any request size
C9_Original ==
  \A i \in 1..Len(hist) : OverrunThenFree(i) => hist[i + 1].err = "ERR_FATAL"

\* C9 as amended: the Z_Free ends in ERR_FATAL exactly when the block is as
\* long as the request, the header and the marker, so that no padding lies
\* between payload and marker
C9_TrashDetected ==
  \A i \in 1..Len(hist) :
    OverrunThenFree(i) =>
      (hist[i + 1].err = "ERR_FATAL"
         <=> hist[i].bsize = hist[i].call.n + SizeofMemblock + SizeofInt)

C9_Witness ==
  /\ Len(hist) >= 2
  /\ OverrunThenFree(Len(hist) - 1)
  /\ err = "ERR_FATAL"

(***************************************************************************)
(* C10: the permanent bytes of both banks and the temp bytes not rolled    *)
(* back never add up to more than s_hunkTotal; a hunk allocation that      *)
(* would go beyond ends in ERR_DROP and moves no cursor.                   *)
(***************************************************************************)
TempUnfreed(b) == IF b.temp > b.permanent THEN b.temp - b.permanent ELSE 0

HunkInUse(hk) ==
  hk.hunk_low.permanent + hk.hunk_high.permanent
    + TempUnfreed(hk.hunk_low) + TempUnfreed(hk.hunk_high)

C10_Inv == HunkInUse(hunk) <= s_hunkTotal

C10_Step ==
  LET l == last'
      size == IF l.op = "Hunk_Alloc" THEN PAD(l.n, CacheLine)
              ELSE PAD(l.n, SizeofIntptr) + SizeofHunkHeader
  IN  l.op \in {"Hunk_Alloc", "Hunk_AllocateTempMemory"} =>
        IF HunkInUse(hunk) + size > s_hunkTotal
        THEN err' = "ERR_DROP" /\ l.ptr = NULL /\ hunk' = hunk
        ELSE err' = "none" /\ l.ptr # NULL
               /\ HunkInUse(hunk') = HunkInUse(hunk) + size

\* C10: the bound holds in every state, and a refused request is dropped
C10_CursorsNeverCross == [](C10_Inv) /\ [][C10_Step]_vars

\* a Hunk_Alloc refused with the hunk nearly full
C10_Witness ==
  /\ last.op = "Hunk_Alloc"
  /\ err = "ERR_DROP"
  /\ HunkInUse(hunk) > s_hunkTotal \div 2

(***************************************************************************)
(* C11: in every state the hunk calls reach, temp >= permanent on both     *)
(* banks.                                                                  *)
(***************************************************************************)
Banks == {"hunk_low", "hunk_high"}

C11_TempAbovePermanent ==
  \A b \in Banks : hunk[b].temp >= hunk[b].permanent

\* a temp frame freed under another one, with permanent memory allocated
C11_Witness ==
  /\ last.op = "Hunk_FreeTempMemory"
  /\ err = "none"
  /\ hunk[hunk_temp].temp > hunk[hunk_temp].permanent
  /\ \E b \in Banks : hunk[b].permanent > 0

(***************************************************************************)
(* C12: in every state the hunk calls reach, tempHighwater >= temp on both *)
(* banks.                                                                  *)
(***************************************************************************)
C12_Original ==
  \A b \in Banks : hunk[b].tempHighwater >= hunk[b].temp

(***************************************************************************)
(* C16: in every state the hunk calls reach, mark <= permanent on both     *)
(* banks.                                                                  *)
(***************************************************************************)
C16_MarkBelowPermanent ==
  \A b \in Banks : hunk[b].mark <= hunk[b].permanent

\* a mark set above 0 and permanent memory allocated above it
C16_Witness ==
  /\ last.op = "Hunk_Alloc"
  /\ err = "none"
  /\ \E b \in Banks : hunk[b].mark > 0 /\ hunk[b].permanent > hunk[b].mark

(***************************************************************************)
(* C13: scenario S6.  After Hunk_Alloc( 10 KiB, h_low ), a temp allocation *)
(* of 100 KiB that is freed at once, and Hunk_Alloc( h_dontcare ): the     *)
(* temp allocation comes from the high bank, whose tempHighwater becomes   *)
(* about 100 KiB, and the h_dontcare allocation comes from the high bank.  *)
(***************************************************************************)
S6 ==
  /\ Len(hist) = 4
  /\ hist[1].call.op = "Hunk_Alloc"
  /\ hist[1].call.n = 10 * 1024
  /\ hist[1].call.pref = "h_low"
  /\ hist[2].call.op = "Hunk_AllocateTempMemory"
  /\ hist[2].call.n = 100 * 1024
  /\ hist[3].call.op = "Hunk_FreeTempMemory"
  /\ hist[3].call.ptr = hist[2].call.ptr
  /\ hist[4].call.op = "Hunk_Alloc"
  /\ hist[4].call.pref = "h_dontcare"

\* the bytes of a temp frame of n bytes, and of a permanent allocation
TempFrame(n) == PAD(n, SizeofIntptr) + SizeofHunkHeader
PermBytes(n) == PAD(n, CacheLine)

C13_Original ==
  S6 => /\ err = "none"
        /\ hist[2].hunk.hunk_high.temp = TempFrame(100 * 1024)
        /\ hist[2].hunk.hunk_high.tempHighwater = TempFrame(100 * 1024)
        /\ hist[2].hunk.hunk_low.temp = 10 * 1024
        /\ hist[4].hunk_permanent = "hunk_high"
        /\ hist[4].hunk.hunk_high.permanent = PermBytes(hist[4].call.n)
        /\ hist[4].hunk.hunk_low.permanent = 10 * 1024

(***************************************************************************)
(* C14: Hunk_SwapBanks exchanges hunk_permanent and hunk_temp only when    *)
(* the temp bank has temp = permanent, and changes no cursor of a bank.    *)
(***************************************************************************)
\* Hunk_SwapBanks called in the state as it is
C14_Inv ==
  LET s2 == Hunk_SwapBanks(St)
  IN  /\ s2.hunk = hunk
      /\ s2.hunkmem = hunkmem
      /\ s2.s_hunkTotal = s_hunkTotal
      /\ {s2.hunk_permanent, s2.hunk_temp} = Banks
      /\ s2.hunk_permanent # hunk_permanent
           => /\ hunk[hunk_temp].temp = hunk[hunk_temp].permanent
              /\ s2.hunk_permanent = hunk_temp
              /\ s2.hunk_temp = hunk_permanent

\* a call during which the banks were swapped: the bank it does not allocate
\* from keeps its cursors, and no mark moves
C14_Step ==
  (hunk_permanent' # hunk_permanent /\ last'.op # "Hunk_Clear")
    => /\ hunk[hunk_temp].temp = hunk[hunk_temp].permanent
       /\ hunk_permanent' = hunk_temp
       /\ hunk_temp' = hunk_permanent
       /\ \A b \in Banks : hunk'[b].mark = hunk[b].mark
       /\ LET other == IF last'.op = "Hunk_Alloc" THEN hunk_temp'
                       ELSE hunk_permanent'
          IN  hunk'[other] = hunk[other]

\* C14: a swap is made only with no temp live on the temp bank, and moves no
\* cursor
C14_SwapSafe == [](C14_Inv) /\ [][C14_Step]_vars

\* the banks are swapped and a temp frame is live on the low bank
C14_Witness ==
  /\ hunk_permanent = "hunk_high"
  /\ hunk_temp = "hunk_low"
  /\ err = "none"
  /\ hunk.hunk_low.temp > hunk.hunk_low.permanent
  /\ hunk.hunk_low.permanent > 0

(***************************************************************************)
(* C19: a Hunk_Alloc or Hunk_AllocateTempMemory that ends in ERR_DROP      *)
(* leaves permanent, temp, tempHighwater and mark of both banks as they    *)
(* were before the call.                                                   *)
(***************************************************************************)
C19_Step ==
  (err' = "ERR_DROP" /\ err = "none")
    => /\ last'.op \in {"Hunk_Alloc", "Hunk_AllocateTempMemory"}
       /\ last'.ptr = NULL
       /\ hunk' = hunk

\* C19: the drop error of an exhausted hunk is raised with no cursor moved
C19_DropMovesNothing == [][C19_Step]_vars

\* a temp allocation refused with memory allocated on both banks
C19_Witness ==
  /\ err = "ERR_DROP"
  /\ last.op = "Hunk_AllocateTempMemory"
  /\ \E b \in Banks : hunk[b].permanent > 0

(***************************************************************************)
(* C15: in a recorded run, Hunk_SetMark, then Hunk_Alloc calls only, then  *)
(* Hunk_ClearToMark leave permanent of each bank at the value it had at    *)
(* the Hunk_SetMark.                                                       *)
(***************************************************************************)
\* call i sets the mark, calls i+1..j-1 are Hunk_Alloc, call j clears to it
MarkRun(i, j) ==
  /\ 1 <= i /\ i < j /\ j <= Len(hist)
  /\ hist[i].call.op = "Hunk_SetMark"
  /\ hist[j].call.op = "Hunk_ClearToMark"
  /\ \A k \in (i + 1)..(j - 1) :
        hist[k].call.op = "Hunk_Alloc" /\ hist[k].err = "none"

C15_MarkIdempotent ==
  \A i \in 1..Len(hist), j \in 1..Len(hist) :
    MarkRun(i, j) =>
      \A b \in Banks : hist[j].hunk[b].permanent = hist[i].hunk[b].permanent

\* memory allocated before the mark, two allocations after it with a bank
\* swap between them, then the clear
C15_Witness ==
  /\ MarkRun(2, 5)
  /\ \E b \in Banks : hist[2].hunk[b].permanent > 0
  /\ hist[3].hunk_permanent # hist[4].hunk_permanent
  /\ \A b \in Banks : hist[4].hunk[b].permanent > hist[2].hunk[b].permanent

(***************************************************************************)
(* C17: Hunk_FreeTempMemory of a frame that is not the top one of the temp *)
(* bank moves no cursor, of the top one takes the frame's size off temp;   *)
(* scenario S5: t1, t2 = Hunk_AllocateTempMemory( 500 ), free t1, free t2  *)
(* leave temp above permanent by t1's frame until Hunk_ClearTempMemory.    *)
(***************************************************************************)
\* whether the frame whose header is at h ends at the temp bank's cursor
TopFrame(h) ==
  IF hunk_temp = "hunk_low"
  THEN h + hunkmem[h].size = s_hunkData + hunk[hunk_temp].temp
  ELSE h = s_hunkData + s_hunkTotal - hunk[hunk_temp].temp

C17_Step ==
  (last'.op = "Hunk_FreeTempMemory" /\ err' = "none") =>
     LET h == last'.ptr - SizeofHunkHeader
     IN  /\ hunk_temp' = hunk_temp
         /\ hunk_permanent' = hunk_permanent
         /\ hunk' = IF TopFrame(h)
                    THEN [hunk EXCEPT ![hunk_temp].temp = @ - hunkmem[h].size]
                    ELSE hunk

\* the first n calls of S5
S5(n) ==
  /\ Len(hist) >= n
  /\ \A k \in 1..2 :
        /\ hist[k].call.op = "Hunk_AllocateTempMemory"
        /\ hist[k].call.n = 500
  /\ n >= 3 => /\ hist[3].call.op = "Hunk_FreeTempMemory"
               /\ hist[3].call.ptr = hist[1].call.ptr
  /\ n >= 4 => /\ hist[4].call.op = "Hunk_FreeTempMemory"
               /\ hist[4].call.ptr = hist[2].call.ptr
  /\ n >= 5 => hist[5].call.op = "Hunk_ClearTempMemory"

\* temp - permanent on the temp bank after call k
TempAbove(k) ==
  LET t == CHOOSE b \in Banks : b # hist[k].hunk_permanent
  IN  hist[k].hunk[t].temp - hist[k].hunk[t].permanent

C17_Inv ==
  /\ S5(2) => TempAbove(2) = 2 * TempFrame(500)
  /\ S5(3) => hist[3].hunk = hist[2].hunk
  /\ S5(4) => /\ TempAbove(4) = TempFrame(500)
              /\ hist[4].err = "none"
  /\ S5(5) => TempAbove(5) = 0

\* C17: temp frames are rolled back in stack order only
C17_StackOrder == [](C17_Inv) /\ [][C17_Step]_vars

C17_Witness == S5(5) /\ Len(hist) = 5 /\ err = "none"

(***************************************************************************)
(* C18: scenario S4.  On a fresh hunk p = Hunk_Alloc( s, h_low ) and       *)
(* q = Hunk_Alloc( s, h_high ) give p at offset 0, q at offset             *)
(* total - PAD( s, 64 ), and Hunk_MemoryRemaining() is                     *)
(* total - 2 * PAD( s, 64 ) afterwards.                                    *)
(***************************************************************************)
S4 ==
  /\ Len(hist) = 2
  /\ hist[1].call.op = "Hunk_Alloc" /\ hist[1].call.pref = "h_low"
  /\ hist[2].call.op = "Hunk_Alloc" /\ hist[2].call.pref = "h_high"
  /\ hist[2].call.n = hist[1].call.n

S4_Expect ==
  /\ err = "none"
  /\ hist[1].call.ptr = s_hunkData
  /\ hist[2].call.ptr = s_hunkData + s_hunkTotal - PermBytes(hist[2].call.n)
  /\ Hunk_MemoryRemaining(St) = s_hunkTotal - 2 * PermBytes(hist[2].call.n)

DoubleFree(i, j) ==
  /\ 1 <= i /\ i < j /\ j <= Len(hist)
  /\ hist[i].call.op = "Z_Free" /\ hist[i].err = "none"
  /\ hist[j].call.op = "Z_Free" /\ hist[j].call.ptr = hist[i].call.ptr
  /\ \A m \in (i + 1)..(j - 1) : hist[m].call.op # "Z_Malloc"

C20_Inv ==
  \A i \in 1..Len(hist), j \in 1..Len(hist) :
    DoubleFree(i, j) => /\ hist[j].err = "ERR_FATAL"
                        /\ hist[j].used = hist[j - 1].used

\* a Z_Free of a block that is free at the call
C20_Step ==
  (last'.op = "Z_Free" /\ last'.tag = TAG_FREE) =>
     /\ err' = "ERR_FATAL"
     /\ UNCHANGED <<hdr, fl, zone, trash, segs>>

\* C20: a double free is fatal and changes nothing
C20_DoubleFree == [](C20_Inv) /\ [][C20_Step]_vars

\* a double free of a block that the first free merged into a neighbour
C20_Witness ==
  /\ Len(hist) >= 2
  /\ \E i \in 1..(Len(hist) - 1) : DoubleFree(i, Len(hist))
  /\ err = "ERR_FATAL"
  /\ last.ptr - SizeofMemblock \notin Range(BlockList("mainzone"))

\* a double free of a block that is in the block list still
C20_WitnessInPlace ==
  /\ Len(hist) >= 2
  /\ \E i \in 1..(Len(hist) - 1) : DoubleFree(i, Len(hist))
  /\ err = "ERR_FATAL"
  /\ last.ptr - SizeofMemblock \in Range(BlockList("mainzone"))

(***************************************************************************)
(* C21: after every zone call the last four bytes of every block in use    *)
(* hold ZONEID, also in a block that was handed out whole and is larger    *)
(* than the padded request.                                                *)
(***************************************************************************)
C21_TrashMarker ==
  \A z \in Zones :
    \A b \in InUseOf(hdr, z) :
      /\ b + hdr[b].size - SizeofInt \in DOMAIN trash
      /\ trash[b + hdr[b].size - SizeofInt] = ZONEID

\* an allocation has returned a block larger than BlockSize of the request
C21_Witness ==
  /\ last.op \in {"Z_Malloc", "Z_TagMalloc", "S_Malloc"}
  /\ err = "none"
  /\ hdr[last.ptr - SizeofMemblock].size > BlockSize(last.n)
  /\ \E z \in Zones : Cardinality(InUseOf(hdr, z)) >= 2

(***************************************************************************)
(* C22: while the hunk is uninitialised Hunk_AllocateTempMemory( size ) is *)
(* Z_Malloc( size ) and Hunk_FreeTempMemory( buf ) is Z_Free( buf );       *)
(* Hunk_ClearTempMemory does nothing, Hunk_Alloc is fatal, no hunk cursor  *)
(* moves; an allocation and the free of its buffer right after it leave    *)
(* the main zone's used as it was.                                         *)
(***************************************************************************)
C22_Step ==
  /\ <<hunk, hunk_permanent, hunk_temp, s_hunkData, s_hunkTotal, hunkmem>>'
       = <<hunk, hunk_permanent, hunk_temp, s_hunkData, s_hunkTotal, hunkmem>>
  /\ last'.op = "Hunk_AllocateTempMemory" =>
       /\ St' = Z_Malloc(St, last'.n).st
       /\ last'.ptr = Z_Malloc(St, last'.n).ret
       /\ last'.ptr # NULL => hdr'[last'.ptr - SizeofMemblock].tag = TAG_GENERAL
  /\ last'.op = "Hunk_FreeTempMemory" => St' = Z_Free(St, last'.ptr)
  /\ last'.op = "Hunk_ClearTempMemory" => St' = St
  /\ last'.op = "Hunk_Alloc" => St' = Com_Error(St, "ERR_FATAL")

\* calls i+1 and i+2 are an allocation and the free of its buffer
TempPair(i) ==
  /\ i + 2 <= Len(hist)
  /\ hist[i + 1].call.op = "Hunk_AllocateTempMemory"
  /\ hist[i + 1].call.ptr # NULL
  /\ hist[i + 2].call.op = "Hunk_FreeTempMemory"
  /\ hist[i + 2].call.ptr = hist[i + 1].call.ptr

\* C22 as stated, the pair: used unchanged
C22_Original ==
  \A i \in 0..Len(hist) :
    TempPair(i) => /\ hist[i + 2].err = "none"
                   /\ UsedAt(i + 2, "mainzone") = UsedAt(i, "mainzone")

\* the pair as amended: used unchanged but for the separator of a segment
\* the allocation added
C22_Pair ==
  \A i \in 0..Len(hist) :
    TempPair(i) =>
      /\ hist[i + 2].err = "none"
      /\ UsedAt(i + 2, "mainzone")
           = UsedAt(i, "mainzone")
               + SizeofMemblock
                   * (NsegAt(i + 2, "mainzone") - NsegAt(i, "mainzone"))
      /\ UsedAt(i + 2, "smallzone") = UsedAt(i, "smallzone")

\* C22 as amended
C22_Fallback == [](C22_Pair) /\ [][C22_Step]_vars

\* a pair made with a buffer held already, the zone as large as it was
C22_Witness ==
  /\ Len(hist) = 3
  /\ TempPair(1)
  /\ hist[1].call.op = "Hunk_AllocateTempMemory"
  /\ s_hunkData = NULL
  /\ err = "none"
  /\ NsegAt(3, "mainzone") = 0
  /\ zone["mainzone"].used = hist[1].bsize

(***************************************************************************)
(* C23: an allocation adds a segment only if the zone has no free block of *)
(* the padded size or more; if it has one, the block returned is one of    *)
(* them and zone->size stays.  A segment added is PAD( size, 2 MiB ) bytes *)
(* and a separator.                                                        *)
(***************************************************************************)
AllocOps == {"Z_Malloc", "Z_TagMalloc", "S_Malloc"}

\* the free blocks of zone z that hold size bytes
Fitting(z, size) == {b \in FreeOf(hdr, z) : hdr[b].size >= size}

C23_Step ==
  last'.op \in AllocOps =>
    LET z == ZoneOfTag(last'.tag)
        size == BlockSize(last'.n)
    IN  IF Fitting(z, size) # {}
        THEN /\ err' = "none"
             /\ zone'[z].size = zone[z].size
             /\ segs' = segs
             /\ last'.ptr - SizeofMemblock \in Fitting(z, size)
        ELSE \/ /\ err' = "ERR_FATAL"
                /\ zone' = zone
                /\ segs' = segs
             \/ /\ err' = "none"
                /\ Len(segs') = Len(segs) + 1
                /\ zone'[z].size
                     = zone[z].size + PAD(size, SegmentChunk) + SizeofMemblock
                /\ last'.ptr = segs'[Len(segs')].sep + 2 * SizeofMemblock

\* C23: the zone grows only when no free block is large enough
C23_GrowOnlyWhenFull == [][C23_Step]_vars

\* a request of the small class was served from the medium list, the small
\* list being empty, with free blocks in two lists and nothing added
C23_Witness ==
  /\ last.op \in AllocOps
  /\ err = "none"
  /\ segs = <<>>
  /\ BlockSize(last.n) <= SMALL_SIZE
  /\ hdr[last.ptr - SizeofMemblock].size > SMALL_SIZE
  /\ hdr[last.ptr - SizeofMemblock].size <= MEDIUM_SIZE

\* a segment was added to a zone that had free blocks, all of them too small
C23_WitnessGrown ==
  /\ last.op \in AllocOps
  /\ err = "none"
  /\ Len(segs) = 1
  /\ last.ptr = segs[1].sep + 2 * SizeofMemblock
  /\ Cardinality(FreeOf(hdr, ZoneOfTag(last.tag))) >= 2

(***************************************************************************)
(* C24: an allocation that takes a free block of B bytes for a padded      *)
(* request of S bytes splits it iff B - S >= minfragment: then the block   *)
(* returned has S bytes and a free block of B - S bytes follows it;        *)
(* otherwise the whole block is returned.  The block returned has at       *)
(* least S and less than S + minfragment bytes.                            *)
(***************************************************************************)
C24_Step ==
  (last'.op \in AllocOps /\ err' = "none") =>
    LET base == last'.ptr - SizeofMemblock
        S == BlockSize(last'.n)
        \* the size of the block SearchFree found
        B == IF segs' = segs THEN hdr[base].size ELSE segs'[Len(segs')].size
    IN  /\ IF B - S >= minfragment
           THEN /\ hdr'[base].size = S
                /\ hdr'[base].next = base + S
                /\ hdr'[base + S].tag = TAG_FREE
                /\ hdr'[base + S].size = B - S
                /\ hdr'[base + S].prev = base
                /\ base + S \in FreeOf(hdr', ZoneOfTag(last'.tag))
           ELSE /\ hdr'[base].size = B
                /\ FreeOf(hdr', ZoneOfTag(last'.tag))
                     = FreeOf(hdr, ZoneOfTag(last'.tag)) \ {base}
        /\ S <= hdr'[base].size
        /\ hdr'[base].size < S + minfragment

\* C24: the split policy of Z_TagMalloc
C24_SplitPolicy == [][C24_Step]_vars

\* a block was returned whole with bytes to spare, the block behind it in use
C24_Witness ==
  /\ last.op \in AllocOps
  /\ err = "none"
  /\ hdr[last.ptr - SizeofMemblock].size - BlockSize(last.n) \in 1..(minfragment - 1)
  /\ hdr[hdr[last.ptr - SizeofMemblock].next].tag # TAG_FREE

\* a freed block was split, the fragment lying in front of a block in use
C24_WitnessSplit ==
  /\ last.op \in AllocOps
  /\ err = "none"
  /\ hdr[last.ptr - SizeofMemblock].size = BlockSize(last.n)
  /\ hdr[hdr[last.ptr - SizeofMemblock].next].tag = TAG_FREE
  /\ hdr[hdr[hdr[last.ptr - SizeofMemblock].next].next].id = ZONEID

(***************************************************************************)
(* C25: the separator of every segment added stays in its zone's block     *)
(* list as NewBlock wrote it (tag TAG_GENERAL, id -ZONEID, size 0, its     *)
(* segment's first block behind it) whatever is freed, Z_FreeTags(         *)
(* TAG_GENERAL ) included; every free block lies inside one segment.       *)
(***************************************************************************)
\* the block areas of zone z: that of Z_ClearZone and those of NewBlock
SegAreas(z) ==
  {[lo |-> ZoneAddr(z) + SizeofMemzone,
    hi |-> ZoneAddr(z) + Com_Init.zone[z].size]}
    \cup {[lo |-> segs[i].sep + SizeofMemblock,
           hi |-> segs[i].sep + SizeofMemblock + segs[i].size] :
             i \in SegsOf(segs, z)}

C25_Inv ==
  /\ \A i \in 1..Len(segs) :
        LET sep == segs[i].sep
        IN  /\ sep \in Range(BlockList(segs[i].zone))
            /\ IsSeparator(hdr, sep)
            /\ hdr[sep].next = sep + SizeofMemblock
            /\ hdr[hdr[sep].prev].next = sep
  /\ \A z \in Zones :
        \A b \in FreeOf(hdr, z) :
          \E a \in SegAreas(z) :
            /\ a.lo <= b
            /\ b + hdr[b].size <= a.hi
            /\ hdr[b].size <= a.hi - a.lo

\* the segments added stay
C25_Step == \A i \in 1..Len(segs) : Len(segs') >= i /\ segs'[i] = segs[i]

\* C25: separators are permanent barriers
C25_Separators == [](C25_Inv) /\ [][C25_Step]_vars

\* Z_FreeTags( TAG_GENERAL ) has freed blocks and left a free block on
\* either side of a separator
C25_Witness ==
  /\ last.op = "Z_FreeTags"
  /\ last.tag = TAG_GENERAL
  /\ last.n >= 2
  /\ err = "none"
  /\ Len(segs) = 1
  /\ hdr[hdr[segs[1].sep].prev].tag = TAG_FREE
  /\ hdr[hdr[segs[1].sep].next].tag = TAG_FREE

(***************************************************************************)
(* C26: in every hunk state the permanent bank has temp = permanent, so    *)
(* the temp bank alone can have temp > permanent; while it has, every      *)
(* Hunk_AllocateTempMemory takes its memory from that bank.                *)
(***************************************************************************)
C26_Inv ==
  /\ hunk[hunk_permanent].temp = hunk[hunk_permanent].permanent
  /\ \A b \in Banks : hunk[b].temp > hunk[b].permanent => b = hunk_temp
  /\ hunk_temp # hunk_permanent
  /\ {hunk_temp, hunk_permanent} = Banks

\* a temp allocation made while temp memory is live
C26_Step ==
  (/\ last'.op = "Hunk_AllocateTempMemory"
   /\ err' = "none"
   /\ hunk[hunk_temp].temp > hunk[hunk_temp].permanent) =>
     /\ hunk_temp' = hunk_temp
     /\ hunk_permanent' = hunk_permanent
     /\ hunk'[hunk_permanent] = hunk[hunk_permanent]
     /\ hunk'[hunk_temp].temp = hunk[hunk_temp].temp + TempFrame(last'.n)
     /\ last'.ptr - SizeofHunkHeader
          = IF hunk_temp = "hunk_low"
            THEN s_hunkData + hunk[hunk_temp].temp
            ELSE s_hunkData + s_hunkTotal - hunk'[hunk_temp].temp

\* C26: temp memory lives on one end at a time
C26_OneTempBank == [](C26_Inv) /\ [][C26_Step]_vars

\* a second temp frame on the low bank, with permanent memory on both banks
C26_Witness ==
  /\ last.op = "Hunk_AllocateTempMemory"
  /\ err = "none"
  /\ hunk_temp = "hunk_low"
  /\ hunk[hunk_temp].temp - hunk[hunk_temp].permanent > TempFrame(last.n)
  /\ \E b \in Banks : hunk[b].permanent > 0

(***************************************************************************)
(* C27: with no temp memory live, Hunk_Alloc( size, h_low ) returns memory *)
(* of the low bank and Hunk_Alloc( size, h_high ) memory of the high bank. *)
(***************************************************************************)
\* the temp bank before call k of a recorded run has temp = permanent
NoTempBefore(k) ==
  IF k = 1 THEN TRUE
  ELSE LET t == CHOOSE b \in Banks : b # hist[k - 1].hunk_permanent
       IN  hist[k - 1].hunk[t].temp = hist[k - 1].hunk[t].permanent

\* the bank the memory returned by call k lies in
BankOf(k) ==
  IF hist[k].call.ptr
       = s_hunkData + hist[k].hunk.hunk_low.permanent - PermBytes(hist[k].call.n)
  THEN "hunk_low"
  ELSE IF hist[k].call.ptr
            = s_hunkData + s_hunkTotal - hist[k].hunk.hunk_high.permanent
  THEN "hunk_high"
  ELSE "neither"

\* C27 as stated
C27_Original ==
  \A k \in 1..Len(hist) :
    (/\ hist[k].call.op = "Hunk_Alloc"
     /\ hist[k].err = "none"
     /\ NoTempBefore(k)) =>
       /\ hist[k].call.pref = "h_low" => BankOf(k) = "hunk_low"
       /\ hist[k].call.pref = "h_high" => BankOf(k) = "hunk_high"

(***************************************************************************)
(* C28: with no temp memory live on the temp bank Hunk_SwapBanks swaps iff *)
(* temp.tempHighwater - temp.permanent exceeds                             *)
(* permanent.tempHighwater - permanent.permanent; after it the permanent   *)
(* bank is one whose tempHighwater - permanent is at least the other's.    *)
(***************************************************************************)
\* the touched and unused bytes of a bank
Wasted(h, b) == h[b].tempHighwater - h[b].permanent

\* Hunk_SwapBanks called in the state as it is
C28_Inv ==
  hunk[hunk_temp].temp = hunk[hunk_temp].permanent =>
    LET s == Hunk_SwapBanks(St)
    IN  /\ (s.hunk_permanent = hunk_temp /\ s.hunk_temp = hunk_permanent)
             <=> Wasted(hunk, hunk_temp) > Wasted(hunk, hunk_permanent)
        /\ (s.hunk_permanent = hunk_permanent /\ s.hunk_temp = hunk_temp)
             <=> Wasted(hunk, hunk_temp) <= Wasted(hunk, hunk_permanent)
        /\ s.hunk = hunk
        /\ Wasted(s.hunk, s.hunk_permanent) >= Wasted(s.hunk, s.hunk_temp)

\* the calls that begin with Hunk_SwapBanks, made with no temp memory live
C28_Step ==
  (/\ err' = "none"
   /\ hunk[hunk_temp].temp = hunk[hunk_temp].permanent
   /\ \/ last'.op = "Hunk_AllocateTempMemory"
      \/ last'.op = "Hunk_Alloc" /\ last'.pref = "h_dontcare") =>
     hunk_permanent' = IF Wasted(hunk, hunk_temp) > Wasted(hunk, hunk_permanent)
                       THEN hunk_temp ELSE hunk_permanent

\* C28: the swap criterion
C28_SwapCriterion == [](C28_Inv) /\ [][C28_Step]_vars

\* Hunk_Alloc( size, h_dontcare ) has taken the high bank, whose temp
\* highwater mark was the larger
C28_Witness ==
  /\ last.op = "Hunk_Alloc"
  /\ last.pref = "h_dontcare"
  /\ err = "none"
  /\ hunk_permanent = "hunk_high"
  /\ hunk.hunk_high.permanent = PermBytes(last.n)
  /\ hunk.hunk_high.tempHighwater > hunk.hunk_high.permanent
  /\ hunk.hunk_low.permanent > 0

(***************************************************************************)
(* C29: when every block allocated from a zone has been freed again, by    *)
(* Z_Free or Z_FreeTags in any order, each segment of the zone is one free *)
(* block of the size of the segment's block area, and the block is in the  *)
(* free list of its size class.                                            *)
(***************************************************************************)
C29_FullCoalescing ==
  \A z \in Zones :
    InUseOf(hdr, z) = {} =>
      /\ FreeOf(hdr, z) = {a.lo : a \in SegAreas(z)}
      /\ \A a \in SegAreas(z) :
            /\ hdr[a.lo].tag = TAG_FREE
            /\ hdr[a.lo].size = a.hi - a.lo
            /\ a.lo + SizeofMemblock
                 \in Range(FreeListOf(fl, FreeListFor(z, hdr[a.lo].size)))
      /\ Len(BlockList(z)) = 2 * Cardinality(SegAreas(z)) - 1
      /\ zone[z].used = SizeofMemblock * Cardinality(SegsOf(segs, z))

\* three blocks of the main zone, one of them in an added segment, all
\* freed again, the last of them by Z_Free
C29_Witness ==
  /\ last.op = "Z_Free"
  /\ last.tag # TAG_SMALL
  /\ err = "none"
  /\ zcalls >= 3
  /\ \A z \in Zones : InUseOf(hdr, z) = {}
  /\ Cardinality(SegsOf(segs, "mainzone")) = 1

====
